---- MODULE Spec2Model ----
(***************************************************************************)
(* MD22 dual motor controller driver (src/src/lib.rs, src/src/register.rs) *)
(* modelled as a state machine: the caller constructs a driver with        *)
(* Md22::new and then calls its five operations; the I2C transport is the  *)
(* environment, which answers every call with Ok or with an error and, on  *)
(* a successful write_read, fills the read buffer.                         *)
(***************************************************************************)
EXTENDS Integers, Sequences, FiniteSets, TLC

\* ---------------------------------------------------------------- bounds
\* Caller operations issued on one driver instance in the main specification.
MaxOps == 2

\* Register map lookups made in the register map specification.
MaxProbes == 3

\* ------------------------------------------------------------- data types
\* u8
U8 == 0..255

\* Values of the u8 arguments and of the byte read back that the main
\* specification explores: both ends of the range and both "stop" values.
ByteSamples == {0, 1, 128, 255}

\* The transport's opaque error type E.
Errors == {"Nack", "BusFault"}

\* Outcome of one transport call.
TransportResults == {"Ok"} \cup Errors

\* enum Register
Register == {"Mode", "Speed", "Turn", "Acceleration", "SoftwareRevision"}

\* Register::addr with the discriminant of Turn mistyped as 0x03.
addr_collision(r) ==
    CASE r = "Mode" -> 0
      [] r = "Speed" -> 1
      [] r = "Turn" -> 3
      [] r = "Acceleration" -> 3
      [] r = "SoftwareRevision" -> 7

\* Register::addr: `self as u8` of the #[repr(u8)] discriminant.
addr(r) ==
    CASE r = "Mode" -> 0
      [] r = "Speed" -> 1
      [] r = "Turn" -> 2
      [] r = "Acceleration" -> 3
      [] r = "SoftwareRevision" -> 7

\* Register::is_read_only
is_read_only(r) ==
    CASE r = "SoftwareRevision" -> TRUE
      [] OTHER -> FALSE

\* enum I2CAddressSwitchState
I2CAddressSwitchState ==
    {"OnOnOnOn", "OffOnOnOn", "OnOffOnOn", "OffOffOnOn",
     "OnOnOffOn", "OffOnOffOn", "OnOffOffOn", "OffOffOffOn"}

\* I2CAddressSwitchState::bits with the discriminant of OffOnOnOn mistyped
\* as 0xB0.
address_bits_collision(s) ==
    CASE s = "OnOnOnOn" -> 176
      [] s = "OffOnOnOn" -> 176
      [] s = "OnOffOnOn" -> 180
      [] s = "OffOffOnOn" -> 182
      [] s = "OnOnOffOn" -> 184
      [] s = "OffOnOffOn" -> 186
      [] s = "OnOffOffOn" -> 188
      [] s = "OffOffOffOn" -> 190

\* I2CAddressSwitchState::bits: `self as u8` of the explicit discriminant.
address_bits(s) ==
    CASE s = "OnOnOnOn" -> 176
      [] s = "OffOnOnOn" -> 178
      [] s = "OnOffOnOn" -> 180
      [] s = "OffOffOnOn" -> 182
      [] s = "OnOnOffOn" -> 184
      [] s = "OffOnOffOn" -> 186
      [] s = "OnOffOffOn" -> 188
      [] s = "OffOffOffOn" -> 190

\* enum OperatingMode
OperatingMode == {"Mode0", "Mode1"}

\* OperatingMode::bits: `self as u8` of the implicit discriminant.
mode_bits(m) ==
    CASE m = "Mode0" -> 0
      [] m = "Mode1" -> 1

\* Result<T, E>: val is <<>> for (), <<b>> for a u8.
Ok(v) == [ok |-> TRUE, val |-> v, err |-> "-"]
Err(e) == [ok |-> FALSE, val |-> <<>>, err |-> e]

\* No driver instance (before construction, or construction failed).
NoDriver == [live |-> FALSE, mode |-> 0, address |-> 0]

\* struct Md22 { i2c, mode, address }; the i2c handle is the variable bus.
Md22(mode, address) == [live |-> TRUE, mode |-> mode, address |-> address]

\* ------------------------------------------------------------- transport
\* hal::blocking::i2c::Write::write(address, bytes) answered with r: the
\* transaction as the transport sees it.
I2cWrite(address, bytes, r) ==
    [kind |-> "write", address |-> address, bytes |-> bytes,
     rdlen |-> 0, rddata |-> <<>>, result |-> r]

\* hal::blocking::i2c::WriteRead::write_read(address, bytes, buffer) answered
\* with r; on success the transport puts data into the buffer.
I2cWriteRead(address, bytes, buflen, r, data) ==
    [kind |-> "write_read", address |-> address, bytes |-> bytes,
     rdlen |-> buflen, rddata |-> IF r = "Ok" THEN data ELSE <<>>,
     result |-> r]

\* The `?` operator replaced by a map_err that translates every transport
\* error into one driver error.
TryMapped(r, v) == IF r = "Ok" THEN Ok(v) ELSE Err("Nack")

\* The `?` operator on a transport result followed by Ok(v).
Try(r, v) == IF r = "Ok" THEN Ok(v) ELSE Err(r)

\* ------------------------------------------------------------ operations
\* Each operation maps (self, argument, transport answer) to the transactions
\* it issues (log), the driver afterwards and the value returned.

\* Md22::set_mode
set_mode(self, mode, r) ==
    LET bytes == <<addr("Mode"), mode_bits(mode)>>
    IN  [log |-> <<I2cWrite(self.address, bytes, r)>>,
         self |-> self,
         ret |-> Try(r, <<>>)]

\* Md22::set_speed storing its argument in the mode field.
set_speed_cached(self, speed, r) ==
    LET bytes == <<addr("Speed"), speed>>
    IN  [log |-> <<I2cWrite(self.address, bytes, r)>>,
         self |-> [self EXCEPT !.mode = speed],
         ret |-> Try(r, <<>>)]

\* Md22::set_speed clamping the value to the signed maximum.
set_speed_clamped(self, speed, r) ==
    LET bytes == <<addr("Speed"), IF speed > 127 THEN 127 ELSE speed>>
    IN  [log |-> <<I2cWrite(self.address, bytes, r)>>,
         self |-> self,
         ret |-> Try(r, <<>>)]

\* Md22::set_speed
set_speed(self, speed, r) ==
    LET bytes == <<addr("Speed"), speed>>
    IN  [log |-> <<I2cWrite(self.address, bytes, r)>>,
         self |-> self,
         ret |-> Try(r, <<>>)]

\* Md22::set_turn addressing the SoftwareRevision register.
set_turn_revision(self, turn, r) ==
    LET bytes == <<addr("SoftwareRevision"), turn>>
    IN  [log |-> <<I2cWrite(self.address, bytes, r)>>,
         self |-> self,
         ret |-> Try(r, <<>>)]

\* Md22::set_turn
set_turn(self, turn, r) ==
    LET bytes == <<addr("Turn"), turn>>
    IN  [log |-> <<I2cWrite(self.address, bytes, r)>>,
         self |-> self,
         ret |-> Try(r, <<>>)]

\* Md22::set_acceleration skipping the write of a zero acceleration.
set_acceleration_skip(self, acceleration, r) ==
    LET bytes == <<addr("Acceleration"), acceleration>>
    IN  IF acceleration = 0
        THEN [log |-> <<>>, self |-> self, ret |-> Ok(<<>>)]
        ELSE [log |-> <<I2cWrite(self.address, bytes, r)>>,
              self |-> self,
              ret |-> Try(r, <<>>)]

\* Md22::set_acceleration
set_acceleration(self, acceleration, r) ==
    LET bytes == <<addr("Acceleration"), acceleration>>
    IN  [log |-> <<I2cWrite(self.address, bytes, r)>>,
         self |-> self,
         ret |-> Try(r, <<>>)]

\* Md22::get_software_revision returning the buffer as it was initialised.
get_software_revision_stale(self, r, b) ==
    LET bytes == <<addr("SoftwareRevision")>>
        txn == I2cWriteRead(self.address, bytes, 1, r, <<b>>)
        buffer == <<0>>
    IN  [log |-> <<txn>>,
         self |-> self,
         ret |-> Try(r, <<buffer[1]>>)]

\* Md22::get_software_revision: buffer is [0; 1], the transport fills it.
get_software_revision(self, r, b) ==
    LET bytes == <<addr("SoftwareRevision")>>
        txn == I2cWriteRead(self.address, bytes, 1, r, <<b>>)
        buffer == IF r = "Ok" THEN txn.rddata ELSE <<0>>
    IN  [log |-> <<txn>>,
         self |-> self,
         ret |-> Try(r, <<buffer[1]>>)]

\* The initialisation calls of Md22::new with speed zeroed before
\* acceleration.
InitCallsSwapped(mode) ==
    <<[op |-> "set_mode", mode |-> mode, byte |-> 0],
      [op |-> "set_speed", mode |-> mode, byte |-> 0],
      [op |-> "set_acceleration", mode |-> mode, byte |-> 0],
      [op |-> "set_turn", mode |-> mode, byte |-> 0]>>

\* The four initialisation calls of Md22::new, in program order.
InitCalls(mode) ==
    <<[op |-> "set_mode", mode |-> mode, byte |-> 0],
      [op |-> "set_acceleration", mode |-> mode, byte |-> 0],
      [op |-> "set_speed", mode |-> mode, byte |-> 0],
      [op |-> "set_turn", mode |-> mode, byte |-> 0]>>

\* One initialisation call of Md22::new dispatched to the operation.
InitCall(self, c, r) ==
    CASE c.op = "set_mode" -> set_mode(self, c.mode, r)
      [] c.op = "set_acceleration" -> set_acceleration(self, c.byte, r)
      [] c.op = "set_speed" -> set_speed(self, c.byte, r)
      [] c.op = "set_turn" -> set_turn(self, c.byte, r)

\* The body of Md22::new with the results collected and checked only after
\* all four calls were made.
RECURSIVE RunInitNoAbort(_, _, _, _)
RunInitNoAbort(self, calls, res, log) ==
    IF calls = <<>>
    THEN [log |-> log, self |-> self, ret |-> Ok(<<>>)]
    ELSE LET o == InitCall(self, Head(calls), res[Len(log) + 1])
             rest == RunInitNoAbort(o.self, Tail(calls), res, log \o o.log)
         IN  IF o.ret.ok
             THEN rest
             ELSE [log |-> rest.log, self |-> NoDriver, ret |-> o.ret]

\* The body of Md22::new after the struct literal: each call followed by
\* `?`, so the first error returns and the remaining calls are not made.
\* res[i] is the transport's answer to the i-th call, log the transactions
\* issued so far.
RECURSIVE RunInit(_, _, _, _)
RunInit(self, calls, res, log) ==
    IF calls = <<>>
    THEN [log |-> log, self |-> self, ret |-> Ok(<<>>)]
    ELSE LET o == InitCall(self, Head(calls), res[Len(log) + 1])
         IN  IF o.ret.ok
             THEN RunInit(o.self, Tail(calls), res, log \o o.log)
             ELSE [log |-> log \o o.log, self |-> NoDriver, ret |-> o.ret]

\* Md22::new
new(mode, address, res) ==
    LET md22 == Md22(mode_bits(mode), address_bits(address))
    IN  RunInit(md22, InitCalls(mode), res, <<>>)

\* ----------------------------------------------------------------- state
VARIABLES
    md22,    \* the driver instance the caller holds, or NoDriver
    bus,     \* the transactions the transport has seen, in order
    ctor,    \* the call of Md22::new made by the caller and its result
    calls,   \* the operations the caller invoked on md22 and their results
    full,    \* TRUE in the specification over the whole u8 range
    probes   \* the register map lookups made so far and their answers

vars == <<md22, bus, ctor, calls, full, probes>>

NoCall == [called |-> FALSE, mode |-> "Mode0", address |-> "OnOnOnOn",
           ret |-> Ok(<<>>)]

Start(f) ==
    /\ md22 = NoDriver
    /\ bus = <<>>
    /\ ctor = NoCall
    /\ calls = <<>>
    /\ full = f
    /\ probes = <<>>

Init == Start(FALSE)

\* The byte values and the number of operations explored.
Bytes == IF full THEN U8 ELSE ByteSamples
OpLimit == IF full THEN 1 ELSE MaxOps

\* The caller constructs the driver.
New ==
    /\ ~ctor.called
    /\ \E mode \in OperatingMode, address \in I2CAddressSwitchState,
          res \in [1..4 -> TransportResults] :
          LET o == new(mode, address, res)
          IN  /\ md22' = o.self
              /\ bus' = bus \o o.log
              /\ ctor' = [called |-> TRUE, mode |-> mode,
                          address |-> address, ret |-> o.ret]
    /\ UNCHANGED <<calls, full, probes>>

\* The caller invokes an operation on the driver it holds.
Invoke(o, name, mode, byte) ==
    /\ md22' = o.self
    /\ bus' = bus \o o.log
    /\ calls' = Append(calls, [op |-> name, mode |-> mode, byte |-> byte,
                               ret |-> o.ret])
    /\ UNCHANGED <<ctor, full, probes>>

CanCall == md22.live /\ Len(calls) < OpLimit

SetMode ==
    /\ CanCall
    /\ \E mode \in OperatingMode, r \in TransportResults :
          Invoke(set_mode(md22, mode, r), "set_mode", mode, <<>>)

SetSpeed ==
    /\ CanCall
    /\ \E speed \in Bytes, r \in TransportResults :
          Invoke(set_speed(md22, speed, r), "set_speed", "-", <<speed>>)

SetTurn ==
    /\ CanCall
    /\ \E turn \in Bytes, r \in TransportResults :
          Invoke(set_turn(md22, turn, r), "set_turn", "-", <<turn>>)

SetAcceleration ==
    /\ CanCall
    /\ \E acceleration \in Bytes, r \in TransportResults :
          Invoke(set_acceleration(md22, acceleration, r),
                 "set_acceleration", "-", <<acceleration>>)

GetSoftwareRevision ==
    /\ CanCall
    /\ \E b \in Bytes, r \in TransportResults :
          Invoke(get_software_revision(md22, r, b),
                 "get_software_revision", "-", <<>>)

Next ==
    \/ New
    \/ SetMode
    \/ SetSpeed
    \/ SetTurn
    \/ SetAcceleration
    \/ GetSoftwareRevision

Spec == Init /\ [][Next]_vars

\* One operation on a constructed driver, over every u8 value.
InitU8 == Start(TRUE)

SpecU8 == InitU8 /\ [][Next]_vars

\* The register map on its own: a register is looked up and both of its
\* attributes are read.
Probe ==
    /\ Len(probes) < MaxProbes
    /\ \E r \in Register :
          probes' = Append(probes, [reg |-> r, addr |-> addr(r),
                                    read_only |-> is_read_only(r)])
    /\ UNCHANGED <<md22, bus, ctor, calls, full>>

NextRegister == Probe

SpecRegister == Init /\ [][NextRegister]_vars

\* ------------------------------------------------------------ properties
\* The documented constants, written out independently of the operators
\* above.
DocAddress ==
    [OnOnOnOn |-> 176, OffOnOnOn |-> 178, OnOffOnOn |-> 180,
     OffOffOnOn |-> 182, OnOnOffOn |-> 184, OffOnOffOn |-> 186,
     OnOffOffOn |-> 188, OffOffOffOn |-> 190]

DocRegister ==
    [Mode |-> 0, Speed |-> 1, Turn |-> 2, Acceleration |-> 3,
     SoftwareRevision |-> 7]

DocOpRegister ==
    [set_mode |-> 0, set_speed |-> 1, set_turn |-> 2, set_acceleration |-> 3,
     get_software_revision |-> 7]

DocModeValue == [Mode0 |-> 0, Mode1 |-> 1]

Setters == {"set_mode", "set_speed", "set_turn", "set_acceleration"}

Constructed == ctor.called /\ ctor.ret.ok

\* The request part of the one transaction that the caller operation c
\* stands for on the wire.
IsTxnOf(t, c) ==
    /\ t.address = DocAddress[ctor.address]
    /\ IF c.op = "get_software_revision"
       THEN t.kind = "write_read" /\ t.bytes = <<7>> /\ t.rdlen = 1
       ELSE /\ t.kind = "write"
            /\ t.rdlen = 0
            /\ Len(t.bytes) = 2
            /\ t.bytes[1] = DocOpRegister[c.op]
            /\ t.bytes[2] = IF c.op = "set_mode" THEN DocModeValue[c.mode]
                                                 ELSE c.byte[1]

\* The answer of the transport to t is what the operation c returned.
IsAnswerOf(t, c) ==
    IF t.result = "Ok"
    THEN /\ c.ret.ok
         /\ c.ret.val = IF c.op = "get_software_revision" THEN t.rddata
                                                          ELSE <<>>
    ELSE ~c.ret.ok /\ c.ret.err = t.result

\* C1: a construction in which every transport call succeeds has issued
\* exactly the four writes [0x00, M.bits], [0x03, 0], [0x01, 0], [0x02, 0] to
\* A's address, in this order, nothing else, and they precede every
\* transaction of a caller operation.
C1_InitSequence ==
    Constructed =>
        /\ Len(bus) = 4 + Len(calls)
        /\ \A i \in 1..4 :
              /\ bus[i].kind = "write"
              /\ bus[i].address = DocAddress[ctor.address]
              /\ bus[i].result = "Ok"
        /\ <<bus[1].bytes, bus[2].bytes, bus[3].bytes, bus[4].bytes>>
             = << <<0, DocModeValue[ctor.mode]>>, <<3, 0>>, <<1, 0>>,
                  <<2, 0>> >>

C1_Witness ==
    /\ Constructed
    /\ ctor.mode = "Mode1"
    /\ ctor.address = "OffOffOffOn"
    /\ Len(calls) = 1
    /\ bus[2].bytes = <<3, 0>>

\* C2: when the k-th initialisation write fails, new returns that error, no
\* driver exists and the transport has seen exactly k calls; a driver exists
\* if and only if all four writes succeeded.
C2_InitFailure ==
    ctor.called =>
        /\ \A k \in 1..4 :
              (Len(bus) >= k /\ bus[k].result # "Ok") =>
                  /\ ~ctor.ret.ok
                  /\ ctor.ret.err = bus[k].result
                  /\ ~md22.live
                  /\ Len(bus) = k
        /\ md22.live <=>
              (Len(bus) >= 4 /\ \A i \in 1..4 : bus[i].result = "Ok")
        /\ md22.live <=> ctor.ret.ok

C2_Witness ==
    /\ ctor.called
    /\ Len(bus) = 2
    /\ bus[1].result = "Ok"
    /\ bus[2].result = "BusFault"
    /\ ctor.ret.err = "BusFault"
    /\ ~md22.live

\* C3: after set_mode(m) has returned, with the bus write succeeded or
\* failed, the mode field of the driver equals m.bits.
C3_ModeRemembered ==
    (calls # <<>> /\ calls[Len(calls)].op = "set_mode") =>
        md22.mode = DocModeValue[calls[Len(calls)].mode]

\* C4: each of set_speed(v), set_turn(v), set_acceleration(v) and
\* set_mode(m) issues exactly one more transaction, a two-byte write to the
\* device address with the register and the unaltered value, for every u8.
C4_SetterWrites ==
    [][(Len(calls') = Len(calls) + 1 /\ calls'[Len(calls')].op \in Setters)
         => LET c == calls'[Len(calls')]
                t == bus'[Len(bus')]
            IN  /\ Len(bus') = Len(bus) + 1
                /\ SubSeq(bus', 1, Len(bus)) = bus
                /\ t.kind = "write"
                /\ t.address = DocAddress[ctor.address]
                /\ t.bytes = IF c.op = "set_mode"
                             THEN <<0, DocModeValue[c.mode]>>
                             ELSE <<DocOpRegister[c.op], c.byte[1]>>]_vars

C4_Witness ==
    /\ full
    /\ Len(calls) = 1
    /\ calls[1].op = "set_speed"
    /\ calls[1].byte = <<200>>
    /\ Len(bus) = 5
    /\ bus[5].bytes = <<1, 200>>

\* C5: get_software_revision issues exactly one transaction, a
\* write-then-read of [0x07] with a one-byte buffer to the device address,
\* and on success returns the byte the transport put into the buffer.
C5_RevisionRead ==
    [][(Len(calls') = Len(calls) + 1
          /\ calls'[Len(calls')].op = "get_software_revision")
         => LET c == calls'[Len(calls')]
                t == bus'[Len(bus')]
            IN  /\ Len(bus') = Len(bus) + 1
                /\ SubSeq(bus', 1, Len(bus)) = bus
                /\ t.kind = "write_read"
                /\ t.address = DocAddress[ctor.address]
                /\ t.bytes = <<7>>
                /\ t.rdlen = 1
                /\ t.result = "Ok" =>
                      (c.ret.ok /\ Len(t.rddata) = 1 /\ c.ret.val = t.rddata)
       ]_vars

C5_Witness ==
    /\ full
    /\ Len(calls) = 1
    /\ calls[1].op = "get_software_revision"
    /\ calls[1].ret.ok
    /\ calls[1].ret.val = <<201>>
    /\ bus[5].rddata = <<201>>

\* C6: the eight switch states map one-to-one onto 0xB0 .. 0xBE; every
\* transaction carries the constant of the switch state the driver was
\* constructed with and a first payload byte in {0, 1, 2, 3, 7}; the device
\* address of the driver never changes.
C6_AddressTable ==
    /\ \A s \in I2CAddressSwitchState : address_bits(s) = DocAddress[s]
    /\ \A s, t \in I2CAddressSwitchState :
          address_bits(s) = address_bits(t) => s = t
    /\ ctor.called =>
          \A i \in 1..Len(bus) :
              /\ bus[i].address = DocAddress[ctor.address]
              /\ bus[i].bytes[1] \in {0, 1, 2, 3, 7}
    /\ md22.live => md22.address = DocAddress[ctor.address]

C6_Witness ==
    /\ md22.live
    /\ ctor.address = "OffOnOnOn"
    /\ Len(bus) = 6
    /\ bus[5].kind = "write_read"
    /\ bus[6].address = 178

\* C7: the device address passed to the transport in every transaction is
\* representable in 7 bits.
C7_SevenBitAddress ==
    \A i \in 1..Len(bus) : bus[i].address \in 0..127

\* C8: every register lookup answers the fixed constant, two different
\* registers never answer the same address, and the read-only flag is set
\* exactly for SoftwareRevision.
C8_RegisterMap ==
    \A i \in 1..Len(probes) :
        /\ probes[i].addr = DocRegister[probes[i].reg]
        /\ probes[i].read_only <=> (probes[i].reg = "SoftwareRevision")
        /\ \A j \in 1..Len(probes) :
              probes[i].reg # probes[j].reg =>
                  probes[i].addr # probes[j].addr

C8_Witness ==
    /\ Len(probes) = 3
    /\ probes[1].reg = "SoftwareRevision" /\ probes[1].read_only
    /\ probes[2].reg = "Turn" /\ ~probes[2].read_only
    /\ probes[3].reg = "Acceleration" /\ probes[3].addr = 3

\* C9: an operation whose transport call fails with e returns exactly e,
\* has made exactly one transport call, and leaves the driver usable: the
\* next operation issues its own single transaction.
C9_ErrorPropagation ==
    Constructed =>
        /\ md22.live
        /\ Len(bus) = 4 + Len(calls)
        /\ \A i \in 1..Len(calls) :
              bus[4 + i].result # "Ok" =>
                  /\ calls[i].ret = [ok |-> FALSE, val |-> <<>>,
                                     err |-> bus[4 + i].result]
                  /\ IsTxnOf(bus[4 + i], calls[i])
                  /\ i < Len(calls) =>
                        /\ IsTxnOf(bus[4 + i + 1], calls[i + 1])
                        /\ IsAnswerOf(bus[4 + i + 1], calls[i + 1])

C9_Witness ==
    /\ Constructed
    /\ Len(calls) = 2
    /\ calls[1].op = "get_software_revision"
    /\ calls[1].ret = [ok |-> FALSE, val |-> <<>>, err |-> "BusFault"]
    /\ calls[2].op = "set_turn"
    /\ calls[2].ret.ok
    /\ Len(bus) = 6

\* C10: after the four initialisation writes the transport has seen as many
\* transactions as the caller made operations, and the i-th of them is the
\* transaction of the i-th operation.
C10_CallOrder ==
    Constructed =>
        /\ Len(bus) = 4 + Len(calls)
        /\ \A i \in 1..Len(calls) :
              /\ IsTxnOf(bus[4 + i], calls[i])
              /\ IsAnswerOf(bus[4 + i], calls[i])

C10_Witness ==
    /\ Constructed
    /\ Len(calls) = 2
    /\ calls[1].op = "set_speed" /\ calls[1].byte = <<255>>
    /\ ~calls[1].ret.ok
    /\ calls[2].op = "set_mode" /\ calls[2].mode = "Mode1"
    /\ bus[5].bytes = <<1, 255>>
    /\ bus[6].bytes = <<0, 1>>

\* C11: set_speed, set_turn, set_acceleration and get_software_revision
\* leave the mode field and the device address of the driver unchanged, for
\* every argument and every transport outcome.
C11_ModeFrame ==
    [][(Len(calls') = Len(calls) + 1
          /\ calls'[Len(calls')].op \in
                {"set_speed", "set_turn", "set_acceleration",
                 "get_software_revision"})
         => /\ md22.live
            /\ md22'.live
            /\ md22'.mode = md22.mode
            /\ md22'.address = md22.address]_vars

C11_Witness ==
    /\ Constructed
    /\ ctor.mode = "Mode0"
    /\ Len(calls) = 2
    /\ calls[1].op = "set_speed" /\ calls[1].byte = <<1>>
    /\ ~calls[1].ret.ok
    /\ calls[2].op = "get_software_revision" /\ calls[2].ret.ok
    /\ md22.mode = 0
    /\ md22.address = DocAddress[ctor.address]

\* C12: every plain write has exactly two payload bytes, the first being the
\* address of a register that is not read-only; 0x07 is a first payload byte
\* only in write-then-read transactions, whose write payload is exactly
\* [0x07].
C12_NoWriteToReadOnly ==
    \A i \in 1..Len(bus) :
        /\ bus[i].kind \in {"write", "write_read"}
        /\ bus[i].kind = "write" =>
              /\ Len(bus[i].bytes) = 2
              /\ bus[i].bytes[1] # 7
              /\ \E reg \in Register :
                    /\ DocRegister[reg] = bus[i].bytes[1]
                    /\ ~is_read_only(reg)
        /\ bus[i].kind = "write_read" => bus[i].bytes = <<7>>
        /\ bus[i].bytes[1] = 7 => bus[i].kind = "write_read"

C12_Witness ==
    /\ Constructed
    /\ Len(bus) = 6
    /\ bus[5].kind = "write_read" /\ bus[5].bytes = <<7>>
    /\ bus[6].kind = "write" /\ bus[6].bytes = <<2, 255>>

====
